---- MODULE Spec2Model ----
(***************************************************************************)
(* Octagon abstract domain of Lyra: abstract_domains/numerical/octagon.py  *)
(* (OctagonLattice, SingleVarLinearForm, OctagonDomain), and the scope     *)
(* stack of abstract_domains/stack.py (ScopeStack).                        *)
(*                                                                         *)
(* The difference-bound matrix (abstract_domains.numerical.dbm), the       *)
(* interval lattice (abstract_domains.numerical.interval) and the          *)
(* expression classes (core.expressions) are imported by octagon.py but    *)
(* are not part of the sources at hand; they are modelled from their       *)
(* documented contract.                                                    *)
(*                                                                         *)
(* Every call returns an outcome record: err is the exception the call     *)
(* raises (NoErr when it returns normally), the other fields are the       *)
(* state of the receiver when the call ends and its return value.          *)
(***************************************************************************)
EXTENDS Integers, Sequences, FiniteSets, TLC

VARIABLES octs, last, nwrite, nclose, wIter, wLastChange, bottom, expr, stack, hist

vars == <<octs, last, nwrite, nclose, wIter, wLastChange, bottom, expr, stack, hist>>

\* the state outside the octagons: the expression handed to the extractor,
\* the scope stack and the count of its calls
others == <<expr, stack, hist>>

----------------------------------------------------------------------------
(* Bounds of the model *)

\* number of direct writes dbm[i, j] = c in one run
MaxWrites == 1
\* number of closures that change a matrix in one run (the closure of an
\* infeasible matrix lowers its bounds every time it runs)
MaxCloses == 2
\* largest constant passed to a setter or written into a DBM is 2 * MaxConst
MaxConst == 1
\* number of widening iterations of one fixpoint run (WidenSpec)
MaxIter == 6

----------------------------------------------------------------------------
(* Numbers: Python ints with math.inf / -math.inf *)

Inf == 999
NegInf == -999

IsInf(a) == a = Inf \/ a = NegInf

Min(a, b) == IF a <= b THEN a ELSE b
Max(a, b) == IF a >= b THEN a ELSE b

\* a + b (inf + finite = inf)
Add(a, b) ==
    IF a = Inf \/ b = Inf THEN Inf
    ELSE IF a = NegInf \/ b = NegInf THEN NegInf
    ELSE a + b

\* k * a for a finite k # 0
Times(k, a) ==
    IF a = Inf THEN (IF k > 0 THEN Inf ELSE NegInf)
    ELSE IF a = NegInf THEN (IF k > 0 THEN NegInf ELSE Inf)
    ELSE k * a

\* a / 2 as read back by the bound getters (the setters store 2 * c)
Half(a) == IF IsInf(a) THEN a ELSE a \div 2

----------------------------------------------------------------------------
(* Exceptions and outcomes *)

NoErr == "none"
TypeError == "TypeError"
ValueError == "ValueError"
NotImplementedError == "NotImplementedError"

\* return values: the receiver itself, None, a number or a boolean
RetSelf == [kind |-> "self", val |-> 0]
RetNone == [kind |-> "None", val |-> 0]
RetRaise == [kind |-> "raise", val |-> 0]
RetNum(n) == [kind |-> "num", val |-> n]
RetBool(b) == [kind |-> "bool", val |-> IF b THEN 1 ELSE 0]

----------------------------------------------------------------------------
(* Signs: Sign = UnaryArithmeticOperation.Operator *)

PLUS == 1
MINUS == -1

----------------------------------------------------------------------------
(* Difference-bound matrix: size x size bounds, integers or +inf *)

Idx(n) == 0 .. (n - 1)

\* IntegerCDBM(size): a fresh matrix carries no constraint
IntegerCDBM(n) == [size |-> n, m |-> [k \in Idx(n) \X Idx(n) |-> Inf]]

dbm_keys(d) == DOMAIN d.m

\* dbm[i, j] = value
dbm_set(d, k, value) == [d EXCEPT !.m = [d.m EXCEPT ![k] = value]]

\* widening rule that keeps the bound of the other operand
widen_rule_other(a, b) == IF a >= b THEN b ELSE Inf

\* lambda a, b: a if a >= b else inf, the function _widening hands to zip
widen_rule(a, b) == IF a >= b THEN a ELSE Inf

\* f(a, b) for the functions handed to zip: min, max and the widening rule
zip_apply(f, a, b) ==
    CASE f = "min" -> Min(a, b)
      [] f = "max" -> Max(a, b)
      [] f = "widen" -> widen_rule(a, b)

\* zip(other, f): f entry by entry; a position the other matrix does not
\* have keeps its bound
dbm_zip(d, other, f) ==
    [d EXCEPT !.m = [k \in DOMAIN d.m |->
        IF k \in DOMAIN other.m THEN zip_apply(f, d.m[k], other.m[k]) ELSE d.m[k]]]

intersection(d, other) == dbm_zip(d, other, "min")

union(d, other) == dbm_zip(d, other, "max")

\* the other occurrence (positive / negative) of the variable at index i
Bar(i) == IF i % 2 = 0 THEN i + 1 ELSE i - 1

\* Floyd-Warshall relaxation through the intermediate nodes k, k+1, ..., n-1
RECURSIVE ShortestPaths(_, _, _)
ShortestPaths(m, n, k) ==
    IF k >= n THEN m
    ELSE ShortestPaths(
            [p \in DOMAIN m |-> Min(m[p], Add(m[<<p[1], k>>], m[<<k, p[2]>>]))],
            n, k + 1)

\* coherence step: tighten d[i][j] by (d[i][bar i] + d[bar j][j]) / 2
Strengthen(m) ==
    [p \in DOMAIN m |->
        Min(m[p], Half(Add(m[<<p[1], Bar(p[1])>>], m[<<Bar(p[2]), p[2]>>])))]

\* close(): shortest-path closure followed by the coherence step
close(d) == [d EXCEPT !.m = Strengthen(ShortestPaths(d.m, d.size, 0))]

IsClosed(d) == close(d) = d

----------------------------------------------------------------------------
(* OctagonLattice *)

\* the variables an octagon can track
VarNames == {"x", "y"}

\* OctagonLattice.__init__: the variable list, the index mapping and a DBM
\* of size 2 * len(variables)
OctagonLattice(variables) ==
    [variables_list |-> variables, dbm |-> IntegerCDBM(Len(variables) * 2)]

\* _var_to_index: the k-th variable of the list has index 2 * k
var_to_index(o, var) ==
    2 * ((CHOOSE k \in 1 .. Len(o.variables_list) : o.variables_list[k] = var) - 1)

Raise(o, e) == [err |-> e, oct |-> o, ret |-> RetRaise]
Return(o, r) == [err |-> NoErr, oct |-> o, ret |-> r]

\* _index_shift(self, sign) is a module-level function of two parameters;
\* a call with any other number of arguments is a TypeError
index_shift(args) ==
    IF Len(args) # 2 THEN [err |-> TypeError, val |-> 0]
    ELSE [err |-> NoErr, val |-> IF args[2] = MINUS THEN 1 ELSE 0]

\* var + n with var a VariableIdentifier: the operands do not support +
var_plus(var, n) == [err |-> TypeError, val |-> 0]

\* the key var1 + _index_shift(sign1) of a lookup in _var_to_index; both
\* call sites pass the sign as the only argument of _index_shift
shifted_key(var, sign) ==
    IF index_shift(<<sign>>).err # NoErr THEN index_shift(<<sign>>)
    ELSE var_plus(var, index_shift(<<sign>>).val)

\* self.dbm[k1, k2] with k1, k2 the outcomes of the two key lookups
read_entry(o, k1, k2) ==
    IF k1.err # NoErr THEN Raise(o, k1.err)
    ELSE IF k2.err # NoErr THEN Raise(o, k2.err)
    ELSE Return(o, RetNum(o.dbm.m[<<k1.val, k2.val>>]))

\* __getitem__((var1, sign1, var2, sign2))
getitem(o, index_tuple) ==
    IF Len(index_tuple) = 4
    THEN read_entry(o, shifted_key(index_tuple[1], index_tuple[2]),
                       shifted_key(index_tuple[3], index_tuple[4]))
    ELSE Raise(o, ValueError)

\* if i != j: self.dbm[i, j] = value
write_entry(o, k1, k2, value) ==
    IF k1.err # NoErr THEN Raise(o, k1.err)
    ELSE IF k2.err # NoErr THEN Raise(o, k2.err)
    ELSE IF k1.val # k2.val
         THEN Return([o EXCEPT !.dbm = dbm_set(o.dbm, <<k1.val, k2.val>>, value)], RetNone)
         ELSE Return(o, RetNone)

\* for i in range(size): if i != k: dbm[i, k] = value; dbm[k, i] = value
write_row_column(o, k, value) ==
    IF k.err # NoErr THEN Raise(o, k.err)
    ELSE Return([o EXCEPT !.dbm.m =
                    [p \in DOMAIN o.dbm.m |->
                       IF p[1] # p[2] /\ (p[1] = k.val \/ p[2] = k.val)
                       THEN value ELSE o.dbm.m[p]]],
                RetNone)

\* the first if of __setitem__: the 4-tuple
setitem_4(o, index, value) ==
    IF Len(index) = 4
    THEN write_entry(o, shifted_key(index[1], index[2]),
                        shifted_key(index[3], index[4]), value)
    ELSE Return(o, RetNone)

\* the second if of __setitem__ and its else, reached when the first
\* (outcome after4) did not raise: the 2-tuple, ValueError otherwise
setitem_2(after4, index, value) ==
    IF after4.err # NoErr THEN after4
    ELSE IF Len(index) = 2
         THEN write_row_column(after4.oct, var_plus(index[1], index[2]), value)
         ELSE Raise(after4.oct, ValueError)

\* __setitem__(index, value): the 4-tuple writes one entry off the diagonal,
\* the 2-tuple writes the row and the column of one index; the else branch
\* belongs to the second if, so a 4-tuple ends in ValueError after its write
setitem(o, index, value) == setitem_2(setitem_4(o, index, value), index, value)

\* top(): every entry, the diagonal included, becomes inf
top(o) ==
    Return([o EXCEPT !.dbm.m = [k \in DOMAIN o.dbm.m |-> Inf]], RetSelf)

\* is_top(): all([isinf(b) for k, b in self.dbm.items() if b[0] != b[1]]);
\* b is the bound, a number, and b[0] is a TypeError as soon as the matrix
\* has an entry
is_top(o) ==
    IF dbm_keys(o.dbm) = {} THEN Return(o, RetBool(TRUE))
    ELSE Raise(o, TypeError)

\* set_lb(var, constant): the arguments as a tuple, a call with a missing
\* argument is a TypeError
set_lb(o, args) ==
    IF Len(args) # 2 THEN Raise(o, TypeError)
    ELSE setitem(o, <<args[1], MINUS, args[1], PLUS>>, Times(2, args[2]))

\* self[...] / 2 with r the outcome of the read
halved(r) == IF r.err # NoErr THEN r ELSE Return(r.oct, RetNum(Half(r.ret.val)))

get_lb(o, var) == halved(getitem(o, <<var, PLUS, var, MINUS>>))

set_ub(o, args) ==
    IF Len(args) # 2 THEN Raise(o, TypeError)
    ELSE setitem(o, <<args[1], PLUS, args[1], MINUS>>, Times(-2, args[2]))

get_ub(o, var) == halved(getitem(o, <<var, MINUS, var, PLUS>>))

\* self.set_ub(interval.upper) after self.set_lb(interval.lower) (outcome l)
set_interval_ub(l, interval) ==
    IF l.err # NoErr THEN l
    ELSE set_ub(l.oct, <<interval.upper>>)

\* set_interval(var, interval) with interval an IntervalLattice: both
\* setters are called with the bound only
set_interval(o, var, interval) ==
    set_interval_ub(set_lb(o, <<interval.lower>>), interval)

\* set_octagonal_constraint(sign1, var1, sign2, var2, constant)
set_octagonal_constraint(o, sign1, var1, sign2, var2, constant) ==
    setitem(o, <<var1, sign1 * MINUS, var2, sign2>>, constant)

\* the second of two calls that each may raise: r is the outcome of the
\* first, s the outcome of the second run on r.oct
then_none(r, s) ==
    IF r.err # NoErr THEN r
    ELSE IF s.err # NoErr THEN s ELSE Return(s.oct, RetNone)

\* self[var, MINUS] = inf after self[var, PLUS] = inf (outcome p)
forget_minus(p, var) ==
    IF p.err # NoErr THEN p ELSE then_none(p, setitem(p.oct, <<var, MINUS>>, Inf))

\* forget(var): close the DBM, then self[var, PLUS] = inf and
\* self[var, MINUS] = inf; no return statement
forget(o, var) ==
    forget_minus(setitem([o EXCEPT !.dbm = close(o.dbm)], <<var, PLUS>>, Inf), var)

----------------------------------------------------------------------------
(* Binary lattice operations: the outcome also carries the other operand *)

Raise2(o, other, e) == [err |-> e, oct |-> o, other |-> other, ret |-> RetRaise]
Return2(o, other, r) == [err |-> NoErr, oct |-> o, other |-> other, ret |-> r]

\* _less_equal(other): all(x <= y) over the two value lists
less_equal(o, other) ==
    IF o.dbm.size # other.dbm.size THEN Raise2(o, other, ValueError)
    ELSE Return2(o, other,
                 RetBool(\A k \in DOMAIN o.dbm.m : o.dbm.m[k] <= other.dbm.m[k]))

\* _meet(other): DBM intersection, no closure
meet(o, other) ==
    IF o.dbm.size # other.dbm.size THEN Raise2(o, other, ValueError)
    ELSE Return2([o EXCEPT !.dbm = intersection(o.dbm, other.dbm)], other, RetSelf)

\* join that combines the closed operands by a widening with a strict test
strict_widen(sc, oc) ==
    [sc EXCEPT !.m = [k \in DOMAIN sc.m |-> IF sc.m[k] > oc.m[k] THEN sc.m[k] ELSE Inf]]

join_by_widening(o, other) ==
    IF o.dbm.size # other.dbm.size THEN Raise2(o, other, ValueError)
    ELSE Return2([o EXCEPT !.dbm = strict_widen(close(o.dbm), close(other.dbm))],
                 [other EXCEPT !.dbm = close(other.dbm)], RetSelf)

\* _join(other): close both operands, then DBM union
join(o, other) ==
    IF o.dbm.size # other.dbm.size THEN Raise2(o, other, ValueError)
    ELSE Return2([o EXCEPT !.dbm = union(close(o.dbm), close(other.dbm))],
                 [other EXCEPT !.dbm = close(other.dbm)], RetSelf)

\* _widening(other): zip with the widening rule, no size test
widening(o, other) ==
    Return2([o EXCEPT !.dbm = dbm_zip(o.dbm, other.dbm, "widen")], other, RetSelf)

----------------------------------------------------------------------------
(* Expressions (core.expressions) and their interval evaluation            *)
(*                                                                         *)
(* An operand is an atom, possibly under one unary + or -; an expression   *)
(* is one operand (bop = "none") or a binary operation of two operands.    *)

NoName == "-"

Const(lo, hi) == [kind |-> "const", name |-> NoName, lo |-> lo, hi |-> hi]
Var(n) == [kind |-> "var", name |-> n, lo |-> 0, hi |-> 0]
Input == [kind |-> "input", name |-> NoName, lo |-> 0, hi |-> 0]
\* any expression class the extractor has no visit method for
Other == [kind |-> "other", name |-> NoName, lo |-> 0, hi |-> 0]

Operand(un, atom) == [un |-> un, atom |-> atom]
NoOperand == Operand(0, Other)

Single(operand) == [bop |-> "none", left |-> operand, right |-> NoOperand]
Binary(bop, l, r) == [bop |-> bop, left |-> l, right |-> r]

NoInterval == [set |-> FALSE, lower |-> 0, upper |-> 0]
IntervalLattice(lo, hi) == [set |-> TRUE, lower |-> lo, upper |-> hi]

\* IntervalLattice.negate()
negate(i) == IntervalLattice(Times(-1, i.upper), Times(-1, i.lower))

\* IntervalLattice.evaluate_expression on an operand: a literal is its own
\* interval, an input is the unbounded interval, a unary minus negates; a
\* variable (or an unsupported expression) is a ValueError
evaluate_operand(e) ==
    LET base == IF e.atom.kind = "const" THEN IntervalLattice(e.atom.lo, e.atom.hi)
                ELSE IF e.atom.kind = "input" THEN IntervalLattice(NegInf, Inf)
                ELSE NoInterval
    IN  IF ~base.set THEN [err |-> ValueError, interval |-> NoInterval]
        ELSE [err |-> NoErr, interval |-> IF e.un = MINUS THEN negate(base) ELSE base]

IsVariableIdentifier(e) == e.un = 0 /\ e.atom.kind = "var"
IsUnaryOfVariable(e) == e.un # 0 /\ e.atom.kind = "var"

----------------------------------------------------------------------------
(* SingleVarLinearForm: the expression as  +/- var + interval *)

\* __init__: sign PLUS, no variable, no interval
EmptyForm == [var_sign |-> PLUS, var |-> NoName, interval |-> NoInterval]

FormOk(f) == [err |-> NoErr, form |-> f]
FormErr(f, e) == [err |-> e, form |-> f]

\* var setter: a second assignment is a ValueError
set_var(f, value) ==
    IF f.var # NoName THEN FormErr(f, ValueError)
    ELSE FormOk([f EXCEPT !.var = value])

\* interval setter: a second assignment is a ValueError
set_form_interval(f, value) ==
    IF f.interval.set THEN FormErr(f, ValueError)
    ELSE FormOk([f EXCEPT !.interval = value])

\* binary_to_unary_operator
binary_to_unary_operator(bop) ==
    IF bop = "Add" THEN [err |-> NoErr, val |-> PLUS]
    ELSE IF bop = "Sub" THEN [err |-> NoErr, val |-> MINUS]
    ELSE [err |-> ValueError, val |-> 0]

\* visit_Literal, visit_Input
visit_interval(f, e) == set_form_interval(f, evaluate_operand(e).interval)

\* visit_VariableIdentifier
visit_VariableIdentifier(f, e) == set_var(f, e.atom.name)

\* self.interval = IntervalLattice.evaluate_expression(...): the evaluation
\* ev may raise, and so may the setter
store_interval(f, ev) ==
    IF ev.err # NoErr THEN FormErr(f, ev.err)
    ELSE set_form_interval(f, ev.interval)

\* self.var_sign = sign once self.var = ... (outcome v) has not raised
then_sign(v, sign) ==
    IF v.err # NoErr THEN v
    ELSE FormOk([v.form EXCEPT !.var_sign = sign])

\* except ValueError of visit_UnaryArithmeticOperation
unary_handler(e, tried) ==
    IF tried.err = NoErr THEN tried
    ELSE IF e.atom.kind = "var"
         THEN then_sign(set_var(tried.form, e.atom.name), e.un)
         ELSE FormErr(tried.form, ValueError)

\* visit_UnaryArithmeticOperation
visit_UnaryArithmeticOperation(f, e) ==
    unary_handler(e, store_interval(f, evaluate_operand(e)))

\* except ValueError of the left operand
left_handler(e, tried) ==
    IF tried.err = NoErr THEN tried
    ELSE IF IsVariableIdentifier(e.left)
         THEN set_var(tried.form, e.left.atom.name)
    ELSE IF IsUnaryOfVariable(e.left)
         THEN then_sign(set_var(tried.form, e.left.atom.name), e.left.un)
    ELSE FormErr(tried.form, ValueError)

\* first half of visit_BinaryArithmeticOperation: the left operand
visit_left(f, e) ==
    left_handler(e, store_interval(f, evaluate_operand(e.left)))

\* if binary_to_unary_operator(expr.operator) == MINUS: self.interval.negate()
\* after the interval has been stored (outcome stored)
negate_if_minus(stored, b2u) ==
    IF stored.err # NoErr THEN stored
    ELSE IF b2u.err # NoErr THEN FormErr(stored.form, b2u.err)
    ELSE IF b2u.val = MINUS
         THEN FormOk([stored.form EXCEPT !.interval = negate(stored.form.interval)])
         ELSE stored

then_binary_sign_unflipped(v, b2u, un) ==
    IF v.err # NoErr THEN v
    ELSE IF b2u.err # NoErr THEN FormErr(v.form, b2u.err)
    ELSE FormOk([v.form EXCEPT !.var_sign = un])

\* self.var_sign = Sign(binary_to_unary_operator(expr.operator) * un) once
\* self.var = ... (outcome v) has not raised
then_binary_sign(v, b2u, un) ==
    IF v.err # NoErr THEN v
    ELSE IF b2u.err # NoErr THEN FormErr(v.form, b2u.err)
    ELSE FormOk([v.form EXCEPT !.var_sign = b2u.val * un])

\* except ValueError of the right operand
right_handler(e, b2u, tried) ==
    IF tried.err = NoErr THEN tried
    ELSE IF IsVariableIdentifier(e.right)
         THEN then_binary_sign(set_var(tried.form, e.right.atom.name), b2u, PLUS)
    ELSE IF IsUnaryOfVariable(e.right)
         THEN then_binary_sign(set_var(tried.form, e.right.atom.name), b2u, e.right.un)
    ELSE FormErr(tried.form, ValueError)

\* second half of visit_BinaryArithmeticOperation: the right operand; the
\* interval is stored before the operator is looked at
visit_right(f, e) ==
    right_handler(e, binary_to_unary_operator(e.bop),
        negate_if_minus(store_interval(f, evaluate_operand(e.right)),
                        binary_to_unary_operator(e.bop)))

\* the right operand is visited when the left one (outcome l) did not raise
then_right(l, e) == IF l.err # NoErr THEN l ELSE visit_right(l.form, e)

visit_BinaryArithmeticOperation(f, e) == then_right(visit_left(f, e), e)

\* SingleVarLinearForm(expr): dispatch on the class of the expression
SingleVarLinearForm(e) ==
    IF e.bop # "none" THEN visit_BinaryArithmeticOperation(EmptyForm, e)
    ELSE IF e.left.un # 0 THEN visit_UnaryArithmeticOperation(EmptyForm, e.left)
    ELSE IF e.left.atom.kind \in {"const", "input"} THEN visit_interval(EmptyForm, e.left)
    ELSE IF e.left.atom.kind = "var" THEN visit_VariableIdentifier(EmptyForm, e.left)
    ELSE FormErr(EmptyForm, ValueError)

----------------------------------------------------------------------------
(* OctagonDomain *)

\* assignment targets: a VariableIdentifier with its type, or another
\* expression class
Target(kind, name, typ) == [kind |-> kind, name |-> name, typ |-> typ]

\* x = [a, b]: self.set_interval(left, form.interval) after self.forget(left)
\* (outcome fg)
forget_then_set(fg, var, interval) ==
    IF fg.err # NoErr THEN fg ELSE set_interval(fg.oct, var, interval)

\* x = x + [a, b]: set_interval(left, IntervalLattice(get_lb + lower,
\* get_ub + upper)) with lb and ub the outcomes of the two getters
shift_bounds(o, var, interval, lb, ub) ==
    IF lb.err # NoErr THEN lb
    ELSE IF ub.err # NoErr THEN ub
    ELSE set_interval(o, var, IntervalLattice(Add(lb.ret.val, interval.lower),
                                              Add(ub.ret.val, interval.upper)))

\* the branches of _assign_variable on the extracted form
transfer(o, left, form) ==
    IF form.var = NoName /\ form.interval.set
    THEN forget_then_set(forget(o, left.name), left.name, form.interval)
    ELSE IF form.var # NoName /\ form.interval.set
    THEN IF form.var = left.name
         THEN IF form.var_sign = PLUS
              THEN shift_bounds(o, left.name, form.interval,
                                get_lb(o, left.name), get_ub(o, left.name))
              ELSE IF form.var_sign = MINUS THEN Return(o, RetNone)
              ELSE Raise(o, ValueError)
         ELSE Return(o, RetNone)
    ELSE Return(o, RetNone)

\* the try block of _assign_variable: the extraction (outcome x) and the
\* transfer function of the recognised shape
assign_try(o, left, x) ==
    IF x.err # NoErr THEN Raise(o, x.err) ELSE transfer(o, left, x.form)

\* except ValueError: pass, and return self; any other exception leaves
\* the method
assign_handler(t) ==
    IF t.err = NoErr \/ t.err = ValueError THEN Return(t.oct, RetSelf) ELSE t

\* handler that drops every constraint when the try block fails
assign_handler_top(t) ==
    IF t.err = NoErr THEN Return(t.oct, RetSelf)
    ELSE IF t.err = ValueError THEN Return(top(t.oct).oct, RetSelf)
    ELSE t

\* assignment that drops every constraint when the try block fails
assign_variable_top_on_failure(o, left, right) ==
    IF left.kind # "var" THEN Return(o, RetSelf)
    ELSE IF left.typ # "int" THEN Raise(o, ValueError)
    ELSE assign_handler_top(assign_try(o, left, SingleVarLinearForm(right)))

\* _assign_variable(left, right)
assign_variable(o, left, right) ==
    IF left.kind # "var" THEN Return(o, RetSelf)
    ELSE IF left.typ # "int" THEN Raise(o, ValueError)
    ELSE assign_handler(assign_try(o, left, SingleVarLinearForm(right)))

\* the remaining hooks of the State interface
substitute_variable(o, left, right) == Raise(o, NotImplementedError)

assume_top(o, condition) == Return(top(o).oct, RetSelf)

assume(o, condition) == Return(o, RetSelf)

exit_if(o) == Return(o, RetSelf)

exit_loop(o) == Return(o, RetSelf)

output(o, e) == Return(o, RetSelf)

evaluate_literal(o, literal) == Return(o, RetSelf)

enter_if(o) == Return(o, RetSelf)

enter_loop(o) == Return(o, RetSelf)

access_variable(o, variable) == Return(o, RetSelf)

----------------------------------------------------------------------------
(* The state machine: two octagons A and B and the calls made on them *)

Objs == {"A", "B"}

\* constants passed to the setters
Consts == {0, MaxConst}

\* bounds written directly into a DBM (a setter encodes c as 2 * c)
WriteVals == {Times(-2, MaxConst), Times(2, MaxConst)}

\* positions written directly: a diagonal entry, the two unary bounds of
\* the first variable and one entry relating the first two variables
WriteKeys == {<<0, 0>>, <<0, 1>>, <<1, 0>>, <<0, 2>>}

XInt == Target("var", "x", "int")
ZFloat == Target("var", "z", "float")
NotAVariable == Target("other", NoName, "int")
Targets == {XInt, ZFloat, NotAVariable}

C == Operand(0, Const(0, MaxConst))
X == Operand(0, Var("x"))
Y == Operand(0, Var("y"))
NegX == Operand(MINUS, Var("x"))

\* right-hand sides of the assignments
Exprs ==
    { Single(C), Single(X), Single(Y), Single(NegX), Single(Operand(0, Input)),
      Single(Operand(0, Other)), Single(Operand(MINUS, Const(0, MaxConst))),
      Binary("Add", X, C), Binary("Add", C, X), Binary("Sub", X, C),
      Binary("Sub", C, X), Binary("Add", NegX, C), Binary("Sub", C, NegX),
      Binary("Add", Y, C), Binary("Add", X, Y), Binary("Add", C, C),
      Binary("Mult", X, C), Binary("Mult", C, X), Binary("Add", Operand(0, Other), C) }

\* conditions, outputs and literals handed to the hooks
HookExprs == {Single(C), Single(X)}

\* the outcome of the extraction as kept with a call: the form when it
\* matched, the empty form when it failed
Normalised(x) == IF x.err # NoErr THEN FormErr(EmptyForm, x.err) ELSE x

Extracted(e) == Normalised(SingleVarLinearForm(e))

NotExtracted == FormErr(EmptyForm, "skipped")

\* the most recent call: operation, receiver, arguments and outcome
Call(op, self) ==
    [op |-> op, self |-> self, other |-> self, var |-> NoName, var2 |-> NoName,
     s1 |-> PLUS, s2 |-> PLUS, c |-> 0, c2 |-> 0, key |-> <<0, 0>>,
     left |-> NotAVariable, x |-> NotExtracted, err |-> NoErr, ret |-> RetNone]

Done(call, r) == [call EXCEPT !.err = r.err, !.ret = r.ret]

\* a frame of the scope stack: its nesting level, the conditions assumed on
\* it and the levels of the frames combined into it
Frame(level) == [level |-> level, conds |-> <<>>, combined |-> <<>>]

\* ScopeStack(initial_element): one frame, nothing postponed
ScopeStack(initial_element) ==
    [stack |-> <<initial_element>>, postponed_pushpop |-> <<>>, bottom |-> FALSE]

\* the calls made on the scope stack so far: enter_if/enter_loop that pushed,
\* exit_if/exit_loop, pops executed, and whether some prefix of the calls had
\* more exits than enters
NoCalls == [enters |-> 0, exits |-> 0, executed |-> 0, balanced |-> TRUE]

\* the state outside the octagons when nothing has been called on it
OthersInit ==
    /\ expr = Single(C)
    /\ stack = ScopeStack(Frame(0))
    /\ hist = NoCalls

Init ==
    /\ octs = [o \in Objs |-> IF o = "A" THEN OctagonLattice(<<"x", "y">>)
                                         ELSE OctagonLattice(<<"x">>)]
    /\ last = Call("init", "A")
    /\ nwrite = 0
    /\ nclose = 0
    /\ wIter = 0
    /\ wLastChange = 0
    /\ bottom = [o \in Objs |-> FALSE]
    /\ OthersInit

\* self.bottom(): the octagon becomes the bottom sentinel, the matrix is
\* not touched
Bottom(o) ==
    /\ ~bottom[o]
    /\ bottom' = [bottom EXCEPT ![o] = TRUE]
    /\ last' = Done(Call("bottom", o), Return(octs[o], RetSelf))
    /\ UNCHANGED <<octs, nwrite, nclose, wIter, wLastChange, others>>

\* self.dbm[i, j] = c through the dbm property
DbmSet(o, k, c) ==
    /\ nwrite < MaxWrites
    /\ k \in dbm_keys(octs[o].dbm)
    /\ octs' = [octs EXCEPT ![o].dbm = dbm_set(@, k, c)]
    /\ last' = [Call("dbm_set", o) EXCEPT !.key = k, !.c = c]
    /\ nwrite' = nwrite + 1
    /\ UNCHANGED <<nclose, wIter, wLastChange, bottom, others>>

\* the closure changes the matrix of o
CloseChanges(o) == close(octs[o].dbm) # octs[o].dbm

\* self.dbm.close() through the dbm property
DbmClose(o) ==
    /\ CloseChanges(o) => nclose < MaxCloses
    /\ octs' = [octs EXCEPT ![o].dbm = close(@)]
    /\ last' = Call("dbm_close", o)
    /\ nclose' = IF CloseChanges(o) THEN nclose + 1 ELSE nclose
    /\ UNCHANGED <<nwrite, wIter, wLastChange, bottom, others>>

\* B becomes deepcopy(A), as ScopeStack.push copies the top frame
Copy ==
    /\ octs' = [octs EXCEPT !["B"] = octs["A"]]
    /\ last' = [Call("deepcopy", "A") EXCEPT !.other = "B"]
    /\ bottom' = [bottom EXCEPT !["B"] = bottom["A"]]
    /\ UNCHANGED <<nwrite, nclose, wIter, wLastChange, others>>

\* a call on one octagon that runs no closure
Unary(call, r) ==
    /\ octs' = [octs EXCEPT ![call.self] = r.oct]
    /\ last' = Done(call, r)
    /\ UNCHANGED <<nwrite, nclose, wIter, wLastChange, bottom, others>>

Top(o) == Unary(Call("top", o), top(octs[o]))

IsTop(o) == Unary(Call("is_top", o), is_top(octs[o]))

SetLb(o, v, c) ==
    Unary([Call("set_lb", o) EXCEPT !.var = v, !.c = c], set_lb(octs[o], <<v, c>>))

GetLb(o, v) == Unary([Call("get_lb", o) EXCEPT !.var = v], get_lb(octs[o], v))

SetUb(o, v, c) ==
    Unary([Call("set_ub", o) EXCEPT !.var = v, !.c = c], set_ub(octs[o], <<v, c>>))

GetUb(o, v) == Unary([Call("get_ub", o) EXCEPT !.var = v], get_ub(octs[o], v))

SetInterval(o, v, lo, hi) ==
    Unary([Call("set_interval", o) EXCEPT !.var = v, !.c = lo, !.c2 = hi],
          set_interval(octs[o], v, IntervalLattice(lo, hi)))

SetOctagonalConstraint(o, s1, v1, s2, v2, c) ==
    Unary([Call("set_octagonal_constraint", o) EXCEPT
              !.s1 = s1, !.var = v1, !.s2 = s2, !.var2 = v2, !.c = c],
          set_octagonal_constraint(octs[o], s1, v1, s2, v2, c))

\* a call on one octagon; closes: it runs a closure that changes the matrix
Closing(call, r, closes) ==
    /\ closes => nclose < MaxCloses
    /\ octs' = [octs EXCEPT ![call.self] = r.oct]
    /\ last' = Done(call, r)
    /\ nclose' = IF closes THEN nclose + 1 ELSE nclose
    /\ UNCHANGED <<nwrite, wIter, wLastChange, bottom, others>>

\* forget always runs the closure
Forget(o, v) ==
    Closing([Call("forget", o) EXCEPT !.var = v], forget(octs[o], v), CloseChanges(o))

\* the extraction gave an interval and no variable
IntervalOnly(x) == x.err = NoErr /\ x.form.var = NoName /\ x.form.interval.set

\* the assignment runs the closure when the right-hand side is an interval
AssignCloses(left, right) ==
    /\ left.kind = "var" /\ left.typ = "int"
    /\ IntervalOnly(SingleVarLinearForm(right))

Assign(o, left, right) ==
    Closing([Call("assign", o) EXCEPT !.left = left, !.x = Extracted(right)],
            assign_variable(octs[o], left, right),
            AssignCloses(left, right) /\ CloseChanges(o))

\* a hook of the State interface called with the expression e
Hook(call, r, e) ==
    /\ octs' = [octs EXCEPT ![call.self] = r.oct]
    /\ last' = Done(call, r)
    /\ expr' = e
    /\ UNCHANGED <<nwrite, nclose, wIter, wLastChange, bottom, stack, hist>>

SubstituteVariable(o, left, right) ==
    Hook([Call("substitute_variable", o) EXCEPT !.left = left],
         substitute_variable(octs[o], left, right), right)

Assume(o, condition) == Hook(Call("assume", o), assume(octs[o], condition), condition)

ExitIf(o) == Hook(Call("exit_if", o), exit_if(octs[o]), expr)

ExitLoop(o) == Hook(Call("exit_loop", o), exit_loop(octs[o]), expr)

Output(o, e) == Hook(Call("output", o), output(octs[o], e), e)

EvaluateLiteral(o, literal) ==
    Hook(Call("evaluate_literal", o), evaluate_literal(octs[o], literal), literal)

EnterIf(o) == Hook(Call("enter_if", o), enter_if(octs[o]), expr)

EnterLoop(o) == Hook(Call("enter_loop", o), enter_loop(octs[o]), expr)

AccessVariable(o, variable) ==
    Hook([Call("access_variable", o) EXCEPT !.left = variable],
         access_variable(octs[o], variable), expr)

\* a call self.op(other)
BinaryCall(call, r) ==
    /\ octs' = [o \in Objs |-> IF o = call.self THEN r.oct
                               ELSE IF o = call.other THEN r.other ELSE octs[o]]
    /\ last' = Done(call, r)
    /\ UNCHANGED <<nwrite, wIter, wLastChange, bottom, others>>

LessEqual(o, p) ==
    /\ BinaryCall([Call("less_equal", o) EXCEPT !.other = p], less_equal(octs[o], octs[p]))
    /\ UNCHANGED nclose

Meet(o, p) ==
    /\ BinaryCall([Call("meet", o) EXCEPT !.other = p], meet(octs[o], octs[p]))
    /\ UNCHANGED nclose

\* join runs the closure of both operands once the sizes agree
JoinCloses(o, p) ==
    /\ octs[o].dbm.size = octs[p].dbm.size
    /\ CloseChanges(o) \/ CloseChanges(p)

Join(o, p) ==
    /\ JoinCloses(o, p) => nclose < MaxCloses
    /\ BinaryCall([Call("join", o) EXCEPT !.other = p], join(octs[o], octs[p]))
    /\ nclose' = IF JoinCloses(o, p) THEN nclose + 1 ELSE nclose

Widening(o, p) ==
    /\ BinaryCall([Call("widening", o) EXCEPT !.other = p], widening(octs[o], octs[p]))
    /\ UNCHANGED nclose

\* the accessors and the transfer functions called on one octagon
Next ==
    \/ \E k \in WriteKeys, c \in WriteVals : DbmSet("A", k, c)
    \/ DbmClose("A")
    \/ Bottom("A")
    \/ Top("A")
    \/ IsTop("A")
    \/ \E v \in VarNames, c \in Consts : SetLb("A", v, c)
    \/ \E v \in VarNames : GetLb("A", v)
    \/ \E v \in VarNames, c \in Consts : SetUb("A", v, c)
    \/ \E v \in VarNames : GetUb("A", v)
    \/ \E v \in VarNames : SetInterval("A", v, 0, MaxConst)
    \/ \E s1, s2 \in {PLUS, MINUS} : SetOctagonalConstraint("A", s1, "x", s2, "y", MaxConst)
    \/ \E v \in VarNames : Forget("A", v)
    \/ \E right \in Exprs : Assign("A", XInt, right)
    \/ \E left \in Targets : Assign("A", left, Single(C))
    \/ \E left \in Targets, right \in HookExprs : SubstituteVariable("A", left, right)
    \/ \E condition \in HookExprs : Assume("A", condition)
    \/ ExitIf("A")
    \/ ExitLoop("A")
    \/ \E e \in HookExprs : Output("A", e)
    \/ EvaluateLiteral("A", Single(C))
    \/ EnterIf("A")
    \/ EnterLoop("A")
    \/ \E variable \in Targets : AccessVariable("A", variable)

Spec == Init /\ [][Next]_vars

\* the lattice operations that combine two octagons
LatticeNext ==
    \/ \E o \in Objs, k \in WriteKeys, c \in WriteVals : DbmSet(o, k, c)
    \/ \E o \in Objs : DbmClose(o)
    \/ Copy
    \/ \E o \in Objs : Top(o)
    \/ \E o, p \in Objs : o # p /\ LessEqual(o, p)
    \/ \E o, p \in Objs : o # p /\ Meet(o, p)
    \/ \E o, p \in Objs : o # p /\ Join(o, p)
    \/ \E o, p \in Objs : o # p /\ Widening(o, p)

LatticeSpec == Init /\ [][LatticeNext]_vars

----------------------------------------------------------------------------
(* Widening iteration of the fixpoint driver: A := A.widening(B_k) over a  *)
(* sequence B_0, B_1, ... in which every B_k+1 is strictly tighter than    *)
(* B_k                                                                     *)

WVals == {0, MaxConst, Inf}

WOctagons ==
    {[variables_list |-> <<"x">>, dbm |-> [size |-> 2, m |-> f]] :
        f \in [Idx(2) \X Idx(2) -> WVals]}

WidenInit ==
    /\ octs \in [Objs -> WOctagons]
    /\ last = Call("init", "A")
    /\ nwrite = 0
    /\ nclose = 0
    /\ wIter = 0
    /\ wLastChange = 0
    /\ bottom = [o \in Objs |-> FALSE]
    /\ OthersInit

\* one iteration: wLastChange remembers the last iteration that changed A
WidenStep ==
    /\ last.op \in {"init", "tighten"}
    /\ wIter < MaxIter
    /\ LET r == widening(octs["A"], octs["B"]) IN
       /\ octs' = [octs EXCEPT !["A"] = r.oct]
       /\ last' = Done([Call("widening", "A") EXCEPT !.other = "B"], r)
       /\ wLastChange' = IF r.oct # octs["A"] THEN wIter + 1 ELSE wLastChange
    /\ wIter' = wIter + 1
    /\ UNCHANGED <<nwrite, nclose, bottom, others>>

\* the driver supplies the next, strictly tighter, operand
TightenB ==
    /\ last.op = "widening"
    /\ \E f \in [Idx(2) \X Idx(2) -> WVals] :
          /\ \A k \in DOMAIN f : f[k] <= octs["B"].dbm.m[k]
          /\ f # octs["B"].dbm.m
          /\ octs' = [octs EXCEPT !["B"].dbm.m = f]
    /\ last' = Call("tighten", "B")
    /\ UNCHANGED <<nwrite, nclose, wIter, wLastChange, bottom, others>>

WidenNext == WidenStep \/ TightenB

WidenSpec == WidenInit /\ [][WidenNext]_vars

----------------------------------------------------------------------------
(* The extractor on its own: SingleVarLinearForm(expr) for every expression *)
(* built from one operator and two operands                                 *)

Atoms == {Const(0, MaxConst), Var("x"), Var("y"), Input, Other}

\* an atom bare, under a unary plus or under a unary minus
Operands == {Operand(un, atom) : un \in {0, PLUS, MINUS}, atom \in Atoms}

ExtractInputs ==
    {Single(e) : e \in Operands} \cup
    {Binary(bop, l, r) : bop \in {"Add", "Sub", "Mult"}, l \in Operands, r \in Operands}

ExtractInit ==
    /\ octs = [o \in Objs |-> IF o = "A" THEN OctagonLattice(<<"x", "y">>)
                                         ELSE OctagonLattice(<<"x">>)]
    /\ last = Call("init", "A")
    /\ nwrite = 0
    /\ nclose = 0
    /\ wIter = 0
    /\ wLastChange = 0
    /\ bottom = [o \in Objs |-> FALSE]
    /\ expr \in ExtractInputs
    /\ stack = ScopeStack(Frame(0))
    /\ hist = NoCalls

\* form = SingleVarLinearForm(expr): the call keeps the exception and the
\* fields populated when the traversal ends
Extract ==
    /\ last.op = "init"
    /\ last' = [Call("SingleVarLinearForm", "A") EXCEPT
                    !.x = SingleVarLinearForm(expr),
                    !.err = SingleVarLinearForm(expr).err]
    /\ UNCHANGED <<octs, nwrite, nclose, wIter, wLastChange, bottom, others>>

ExtractSpec == ExtractInit /\ [][Extract]_vars

----------------------------------------------------------------------------
(* ScopeStack of abstract_domains/stack.py: a stack of frames with the     *)
(* pops of exit_if / exit_loop postponed to the next _assume               *)

\* number of enter_if / enter_loop calls in one run
MaxEnters == 2
\* number of exit_if / exit_loop calls in one run
MaxExits == 3

IndexError == "IndexError"

\* the outcome of a call on a scope stack s
ScopeReturn(s) == [err |-> NoErr, s |-> s, ret |-> RetSelf]
ScopeRaise(s, e) == [err |-> e, s |-> s, ret |-> RetRaise]

\* the frame methods the stack calls: descend into a nested scope, take in
\* the frame popped above, assume a condition
descend(frame) == [frame EXCEPT !.level = @ + 1]
combine(frame, popped) == [frame EXCEPT !.combined = Append(@, popped.level)]
frame_assume(frame, condition) == [frame EXCEPT !.conds = Append(@, condition)]

\* push: self.stack.append(deepcopy(self.stack[-1]).descend())
push(s) ==
    IF s.bottom THEN ScopeReturn(s)
    ELSE IF s.stack = <<>> THEN ScopeRaise(s, IndexError)
    ELSE ScopeReturn([s EXCEPT !.stack = Append(@, descend(s.stack[Len(s.stack)]))])

\* self.stack[-1].combine(popped) once popped has left the list rest
combine_into(s, rest, popped) ==
    IF rest = <<>> THEN ScopeRaise([s EXCEPT !.stack = rest], IndexError)
    ELSE ScopeReturn([s EXCEPT !.stack =
             [rest EXCEPT ![Len(rest)] = combine(@, popped)]])

\* pop: popped = self.stack.pop(); self.stack[-1].combine(popped)
pop(s) ==
    IF s.bottom THEN ScopeReturn(s)
    ELSE IF s.stack = <<>> THEN ScopeRaise(s, IndexError)
    ELSE combine_into(s, SubSeq(s.stack, 1, Len(s.stack) - 1), s.stack[Len(s.stack)])

\* _postponed_exit_if
postponed_exit_if(s) == IF s.bottom THEN ScopeReturn(s) ELSE pop(s)

\* for pushpop in self._postponed_pushpop: pushpop(), n entries to go
RECURSIVE run_postponed(_, _)

then_postponed(r, n) == IF r.err # NoErr THEN r ELSE run_postponed(r.s, n)

run_postponed(s, n) ==
    IF n = 0 THEN ScopeReturn(s)
    ELSE then_postponed(postponed_exit_if(s), n - 1)

\* if self._postponed_pushpop: self.stack[-1].assume({condition})
assume_on_top_frame(s, condition) ==
    IF s.postponed_pushpop = <<>> THEN ScopeReturn(s)
    ELSE IF s.stack = <<>> THEN ScopeRaise(s, IndexError)
    ELSE ScopeReturn([s EXCEPT !.stack[Len(s.stack)] = frame_assume(@, condition)])

then_pushpops(r) ==
    IF r.err # NoErr THEN r ELSE run_postponed(r.s, Len(r.s.postponed_pushpop))

\* self._postponed_pushpop.clear()
then_clear(r) ==
    IF r.err # NoErr THEN r
    ELSE ScopeReturn([r.s EXCEPT !.postponed_pushpop = <<>>])

\* ScopeStack._assume
scope_assume(s, condition) ==
    then_clear(then_pushpops(assume_on_top_frame(s, condition)))

\* ScopeStack.enter_if
scope_enter_if(s) == IF s.bottom THEN ScopeReturn(s) ELSE push(s)

\* ScopeStack.enter_loop
scope_enter_loop(s) == scope_enter_if(s)

scope_exit_if_at_once(s) == postponed_exit_if(s)

\* ScopeStack.exit_if
scope_exit_if(s) ==
    ScopeReturn([s EXCEPT !.postponed_pushpop = Append(@, "_postponed_exit_if")])

\* ScopeStack.exit_loop
scope_exit_loop(s) == scope_exit_if(s)

\* a call on the scope stack with outcome r; h counts the calls
ScopeCall(op, r, h) ==
    /\ stack' = r.s
    /\ last' = [Call(op, "A") EXCEPT !.err = r.err, !.ret = r.ret]
    /\ hist' = h
    /\ UNCHANGED <<octs, nwrite, nclose, wIter, wLastChange, bottom>>

ScopeEnterIf ==
    /\ hist.enters < MaxEnters
    /\ ScopeCall("ScopeStack.enter_if", scope_enter_if(stack),
                 [hist EXCEPT !.enters = @ + 1])
    /\ UNCHANGED expr

ScopeEnterLoop ==
    /\ hist.enters < MaxEnters
    /\ ScopeCall("ScopeStack.enter_loop", scope_enter_loop(stack),
                 [hist EXCEPT !.enters = @ + 1])
    /\ UNCHANGED expr

ScopeExitIf ==
    /\ hist.exits < MaxExits
    /\ ScopeCall("ScopeStack.exit_if", scope_exit_if(stack),
                 [hist EXCEPT !.exits = @ + 1,
                              !.balanced = @ /\ hist.exits + 1 <= hist.enters])
    /\ UNCHANGED expr

ScopeExitLoop ==
    /\ hist.exits < MaxExits
    /\ ScopeCall("ScopeStack.exit_loop", scope_exit_loop(stack),
                 [hist EXCEPT !.exits = @ + 1,
                              !.balanced = @ /\ hist.exits + 1 <= hist.enters])
    /\ UNCHANGED expr

\* the pops an assume executed are the frames that left the stack
ScopeAssume(condition) ==
    /\ ScopeCall("ScopeStack.assume", scope_assume(stack, condition),
                 [hist EXCEPT !.executed = @ + Len(stack.stack)
                                  - Len(scope_assume(stack, condition).s.stack)])
    /\ expr' = condition

\* self.bottom(): the stack becomes the bottom element
ScopeBottom ==
    /\ ~stack.bottom
    /\ ScopeCall("ScopeStack.bottom", ScopeReturn([stack EXCEPT !.bottom = TRUE]), hist)
    /\ UNCHANGED expr

ScopeNext ==
    \/ ScopeEnterIf
    \/ ScopeEnterLoop
    \/ ScopeExitIf
    \/ ScopeExitLoop
    \/ \E condition \in HookExprs : ScopeAssume(condition)
    \/ ScopeBottom

ScopeSpec == Init /\ [][ScopeNext]_vars

----------------------------------------------------------------------------
(* Properties *)

YInt == Target("var", "y", "int")

\* the entries of a DBM in the row or the column of index i, off the diagonal
Touching(d, i) == {k \in dbm_keys(d) : k[1] # k[2] /\ (k[1] = i \/ k[2] = i)}

OffDiagonal(d) == {k \in dbm_keys(d) : k[1] # k[2]}

SameSize(o, p) == octs[o].dbm.size = octs[p].dbm.size

\* the bounds of a variable as the getters are written to read them
LbEntry(o, v) == Half(o.dbm.m[<<var_to_index(o, v), var_to_index(o, v) + 1>>])
UbEntry(o, v) == Half(o.dbm.m[<<var_to_index(o, v) + 1, var_to_index(o, v)>>])

\* the last call was assign(x, e) on an integer variable x with e a constant
\* interval
AssignedInterval ==
    /\ last.op = "assign" /\ last.left = XInt
    /\ last.x.err = NoErr /\ last.x.form.var = NoName /\ last.x.form.interval.set

\* C1: set_lb(v, c) and set_ub(v, c) return without an exception, and the
\* getter called right after returns c
SetGetRoundTrip ==
    /\ last.op = "set_lb" =>
          /\ last.err = NoErr
          /\ get_lb(octs[last.self], last.var).err = NoErr
          /\ get_lb(octs[last.self], last.var).ret = RetNum(last.c)
    /\ last.op = "set_ub" =>
          /\ last.err = NoErr
          /\ get_ub(octs[last.self], last.var).err = NoErr
          /\ get_ub(octs[last.self], last.var).ret = RetNum(last.c)

\* C2: after assign(x, [a, b]) the bounds of x are a and b, and they still
\* are after the assignment of a constant interval to y
AssignIntervalBounds ==
    AssignedInterval =>
        LET a == last.x.form.interval.lower
            b == last.x.form.interval.upper
            o == octs[last.self]
            after == assign_variable(o, YInt, Single(C))
        IN  /\ last.err = NoErr
            /\ get_lb(o, "x").ret = RetNum(a)
            /\ get_ub(o, "x").ret = RetNum(b)
            /\ after.err = NoErr
            /\ get_lb(after.oct, "x").ret = RetNum(a)
            /\ get_ub(after.oct, "x").ret = RetNum(b)

\* C3: assign(x, x + [a, b]) moves the bounds [l, u] of x to [l + a, u + b]
AssignShiftBounds ==
    [][ ( /\ last'.op = "assign" /\ last'.left = XInt
          /\ last'.x.err = NoErr /\ last'.x.form.var = "x"
          /\ last'.x.form.var_sign = PLUS /\ last'.x.form.interval.set )
        => LET o == octs'[last'.self]
               l == LbEntry(octs[last'.self], "x")
               u == UbEntry(octs[last'.self], "x")
           IN  /\ last'.err = NoErr
               /\ get_lb(o, "x").ret = RetNum(Add(l, last'.x.form.interval.lower))
               /\ get_ub(o, "x").ret = RetNum(Add(u, last'.x.form.interval.upper)) ]_vars

\* C4: after forget(v) both bounds of v are infinite and every entry in
\* the rows and columns of v, off the diagonal, is +inf
ForgetClears ==
    last.op = "forget" =>
        LET o == octs[last.self]
            i == var_to_index(o, last.var)
        IN  /\ last.err = NoErr
            /\ get_lb(o, last.var).err = NoErr /\ IsInf(get_lb(o, last.var).ret.val)
            /\ get_ub(o, last.var).err = NoErr /\ IsInf(get_ub(o, last.var).ret.val)
            /\ \A k \in Touching(o.dbm, i) \cup Touching(o.dbm, i + 1) : o.dbm.m[k] = Inf

\* C5: is_top() answers whether every off-diagonal entry is +inf: true
\* right after top(), false once one bound is set to a finite constant
TopIsTop ==
    /\ last.op = "is_top" =>
          /\ last.err = NoErr
          /\ last.ret = RetBool(\A k \in OffDiagonal(octs[last.self].dbm) :
                                    octs[last.self].dbm.m[k] = Inf)
    /\ last.op = "top" =>
          /\ is_top(octs[last.self]).ret = RetBool(TRUE)
          /\ \A v \in VarNames, c \in Consts :
                v \in {octs[last.self].variables_list[n] :
                          n \in 1 .. Len(octs[last.self].variables_list)} =>
                   /\ is_top(set_lb(octs[last.self], <<v, c>>).oct).ret = RetBool(FALSE)
                   /\ is_top(set_ub(octs[last.self], <<v, c>>).oct).ret = RetBool(FALSE)

\* C6: meet, join, widening and less_equal on octagons of different sizes
\* raise the size error and change no entry of either operand
SizeMismatchFails ==
    [][ ( /\ last'.op \in {"meet", "join", "widening", "less_equal"}
          /\ ~SameSize(last'.self, last'.other) )
        => (last'.err = ValueError /\ octs' = octs) ]_vars

\* C7: join and meet of a closed octagon with an octagon of identical
\* entries leave every entry of the receiver as it was
JoinMeetOfEqualIsNoOp ==
    [][ ( /\ last'.op \in {"meet", "join"}
          /\ SameSize(last'.self, last'.other)
          /\ IsClosed(octs[last'.self].dbm)
          /\ octs[last'.other].dbm.m = octs[last'.self].dbm.m )
        => (last'.err = NoErr /\ octs'[last'.self].dbm = octs[last'.self].dbm) ]_vars

\* a join has just run on two equal, closed octagons that carry a constraint
JoinOfEqualReached ==
    /\ last.op = "join" /\ last.err = NoErr
    /\ octs["A"].dbm = octs["B"].dbm
    /\ IsClosed(octs["A"].dbm)
    /\ \E k \in OffDiagonal(octs["A"].dbm) : octs["A"].dbm.m[k] # Inf

\* C8: with x <= a set on A by set_ub and x <= b set on B, A.meet(B)
\* without any closure leaves get_ub(x) = min(a, b)
MeetOfUpperBounds ==
    SameSize("A", "B") =>
        \A a, b \in Consts :
            LET l == set_ub(octs["A"], <<"x", a>>)
                r == set_ub(octs["B"], <<"x", b>>)
                m == meet(l.oct, r.oct)
            IN  /\ l.err = NoErr /\ r.err = NoErr /\ m.err = NoErr
                /\ get_ub(m.oct, "x").err = NoErr
                /\ get_ub(m.oct, "x").ret = RetNum(Min(a, b))

\* C9: the iteration changes A for the last time within (2N)^2
\* iterations; an iteration keeps an entry that is >= the entry of B_k and
\* sets any other to +inf, and an entry that is +inf stays +inf
WideningConverges ==
    /\ [](wLastChange <= octs["A"].dbm.size * octs["A"].dbm.size)
    /\ [][ last'.op = "widening" =>
             \A k \in dbm_keys(octs[last'.self].dbm) :
                /\ k \in dbm_keys(octs[last'.other].dbm) =>
                      octs'[last'.self].dbm.m[k] =
                         (IF octs[last'.self].dbm.m[k] >= octs[last'.other].dbm.m[k]
                          THEN octs[last'.self].dbm.m[k] ELSE Inf)
                /\ octs[last'.self].dbm.m[k] = Inf => octs'[last'.self].dbm.m[k] = Inf ]_vars

\* the iteration has run past (2N)^2 steps and has dropped a constraint
WideningRanLong ==
    /\ wIter > octs["A"].dbm.size * octs["A"].dbm.size
    /\ wLastChange >= 1
    /\ \E k \in dbm_keys(octs["A"].dbm) : octs["A"].dbm.m[k] # Inf

\* the extraction failed, or gave a variable other than the target, or the
\* target with a negative sign
NotATransferShape(call) ==
    \/ call.x.err = ValueError
    \/ /\ call.x.err = NoErr /\ call.x.form.var # NoName
       /\ (call.x.form.var # call.left.name \/ call.x.form.var_sign = MINUS)

\* C10: such an assignment to an integer variable changes no entry
\* and returns the state
AssignNoOpOnOtherShapes ==
    [][ (last'.op = "assign" /\ last'.left = XInt /\ NotATransferShape(last'))
        => (octs' = octs /\ last'.err = NoErr /\ last'.ret = RetSelf) ]_vars

\* an assignment whose right-hand side failed to extract has run on an
\* octagon that carries a constraint
AssignNoOpReached ==
    /\ last.op = "assign" /\ last.left = XInt /\ last.x.err = ValueError
    /\ last.err = NoErr
    /\ \E k \in OffDiagonal(octs["A"].dbm) : octs["A"].dbm.m[k] # Inf

\* the mutators that the bottom sentinel is said to short-circuit
BottomMutators ==
    {"meet", "join", "widening", "forget", "set_lb", "set_ub", "set_interval",
     "set_octagonal_constraint", "assign"}

\* C11: a mutator called on an octagon that is bottom changes no entry of
\* its DBM and leaves the octagon bottom
BottomShortCircuits ==
    [][(last'.op \in BottomMutators /\ bottom[last'.self]) =>
          /\ octs'[last'.self].dbm = octs[last'.self].dbm
          /\ bottom'[last'.self]]_vars

\* the hooks of the State interface that OctagonDomain leaves empty
Hooks ==
    {"assume", "substitute_variable", "access_variable", "evaluate_literal",
     "output", "enter_if", "enter_loop", "exit_if", "exit_loop"}

\* C12: every hook completes without an exception, changes no DBM entry
\* and returns the state it was called on
HooksAreNoOps ==
    [][last'.op \in Hooks =>
          /\ octs' = octs
          /\ last'.err = NoErr
          /\ last'.ret = RetSelf]_vars

\* C12, amended: every hook leaves the DBM as it was; variable substitution
\* raises NotImplementedError, each of the other eight hooks completes
\* without an exception and returns the state it was called on
HooksAreNoOpsButSubstitution ==
    [][last'.op \in Hooks =>
          /\ octs' = octs
          /\ IF last'.op = "substitute_variable"
                THEN last'.err = NotImplementedError
                ELSE last'.err = NoErr /\ last'.ret = RetSelf]_vars

\* a substitution was called on an octagon that carries a bound
SubstitutionRaised ==
    /\ last.op = "substitute_variable"
    /\ last.err = NotImplementedError
    /\ \E k \in dbm_keys(octs["A"].dbm) : ~IsInf(octs["A"].dbm.m[k])

\* the operations of the lattice surface that are said to chain
PublicSurface == {"top", "meet", "join", "widening", "forget"}

\* C13: top, meet, join, widening and forget return the receiver they were
\* called on, never a fresh object or no value
ReturnsReceiver == last.op \in PublicSurface => last.ret = RetSelf

\* the unary sign of an operand, plus when it has none
UnarySign(e) == IF e.un = 0 THEN PLUS ELSE e.un

IsVariableOperand(e) == e.atom.kind = "var"
IsIntervalOperand(e) == evaluate_operand(e).err = NoErr

\* the interval an operand evaluates to, negated under a subtraction
IntervalOf(e, bop) ==
    IF bop = "Sub" THEN negate(evaluate_operand(e).interval)
    ELSE evaluate_operand(e).interval

\* the form the extractor ended with
ExtractedForm(var, sign, interval) ==
    /\ last.err = NoErr
    /\ last.x.form.var = var
    /\ last.x.form.var_sign = sign
    /\ last.x.form.interval = interval

\* C14: for l op r with op + or -, one operand a variable (bare or under a
\* unary sign) and the other an interval I, the extractor ends with that
\* variable, with the unary sign of the variable flipped iff the variable
\* is on the right of a subtraction, and with I negated iff I is on the
\* right of a subtraction; for another operator, two variables or two
\* intervals the extraction fails with a ValueError
ExtractorMatches ==
    (last.op = "SingleVarLinearForm" /\ expr.bop # "none") =>
       LET l == expr.left
           r == expr.right
           plusminus == expr.bop \in {"Add", "Sub"}
       IN  /\ (plusminus /\ IsVariableOperand(l) /\ IsIntervalOperand(r)) =>
                 ExtractedForm(l.atom.name, UnarySign(l), IntervalOf(r, expr.bop))
           /\ (plusminus /\ IsIntervalOperand(l) /\ IsVariableOperand(r)) =>
                 ExtractedForm(r.atom.name,
                               IF expr.bop = "Sub" THEN -UnarySign(r) ELSE UnarySign(r),
                               evaluate_operand(l).interval)
           /\ (\/ ~plusminus
               \/ IsVariableOperand(l) /\ IsVariableOperand(r)
               \/ IsIntervalOperand(l) /\ IsIntervalOperand(r)) =>
                 last.err = ValueError

\* the extractor has matched  [0, c] - (-x)  and ended with the sign plus
ExtractorFlippedSign ==
    /\ last.op = "SingleVarLinearForm"
    /\ expr = Binary("Sub", C, NegX)
    /\ ExtractedForm("x", PLUS, IntervalLattice(0, MaxConst))

\* the frames with the condition assumed on the top one
AssumedOnTop(frames, condition) ==
    [frames EXCEPT ![Len(frames)].conds = Append(@, condition)]

\* the frames after n pops, each one combining the frame it removes into
\* the frame beneath it
RECURSIVE AfterPops(_, _)
AfterPops(frames, n) ==
    IF n = 0 THEN frames
    ELSE AfterPops([SubSeq(frames, 1, Len(frames) - 1) EXCEPT
                       ![Len(frames) - 1].combined = Append(@, frames[Len(frames)].level)],
                   n - 1)

\* the scope stack is not bottom and no prefix of the calls made on it had
\* more exits than enters
WellNested == ~stack.bottom /\ hist.balanced

\* a step of exit_if or exit_loop on a stack that is not bottom keeps the
\* frames and registers one more pending pop
ExitStepPostpones ==
    (~stack.bottom /\ last'.op \in {"ScopeStack.exit_if", "ScopeStack.exit_loop"}) =>
        /\ stack'.stack = stack.stack
        /\ Len(stack'.postponed_pushpop) = Len(stack.postponed_pushpop) + 1

\* a step of assume with a pop pending assumes the condition on the top
\* frame first and executes the pending pops afterwards
AssumeStepPops ==
    (WellNested /\ last'.op = "ScopeStack.assume") =>
        stack'.stack =
            IF stack.postponed_pushpop = <<>> THEN stack.stack
            ELSE AfterPops(AssumedOnTop(stack.stack, expr'),
                           Len(stack.postponed_pushpop))

====
